---- MODULE Spec2Model ----
(***************************************************************************)
(* A model of the software rendering pipeline: the pinhole camera          *)
(* (camera.rs), the triangle rasteriser and the triangle transforms        *)
(* (rasterisation.rs), the colour arithmetic (colour.rs), the vector and   *)
(* matrix primitives (linear_algebra.rs) and the pixel sink                *)
(* (frame_buffer.rs, main.rs).                                             *)
(*                                                                         *)
(* f32 values are modelled exactly, as extended rationals <<n, d>> in      *)
(* lowest terms with d >= 0: d > 0 is the finite value n/d, and d = 0      *)
(* holds the three non-finite values an IEEE division produces,            *)
(* <<1, 0>> = +Inf, <<-1, 0>> = -Inf and <<0, 0>> = NaN.  Rounding is not  *)
(* modelled: every property below is one of exact arithmetic.              *)
(***************************************************************************)
EXTENDS Integers, Sequences, FiniteSets, TLC

VARIABLES
    pending,        \* the triangles the caller still has to rasterise, in order
    winding,        \* the winding order the caller passes ("CCW" or "CW")
    frame_buffer,   \* the pixel sink: [width_px, height_px, buf]
    calls,          \* one record per completed rasterise_triangle call
    camera_args,    \* the arguments the caller has for Camera::new
    camera,         \* the Camera the caller holds
    built,          \* per fit mode, the canvas_size Camera::new has computed, if it has
    projection,     \* the last projection call: its operation, input and result
    triangle3,      \* main's mutable triangle
    original,       \* triangle3 as constructed, before any transform
    frames,         \* the matrices transform_this_triangle has applied so far
    returned,       \* the last transform_triangle call, if any: its input, matrix and output
    operation,      \* the last call made on the sink directly: its arguments and outcome
    latest          \* per pixel, the colour of the latest successful write_buf, or
                    \* BLANK once clear_buf has run or while nothing was written

vars == <<pending, winding, frame_buffer, calls, camera_args, camera, built,
          projection, triangle3, original, frames, returned, operation, latest>>

rasterVars == <<pending, winding, frame_buffer, calls>>
cameraVars == <<camera_args, camera, built, projection>>
transformVars == <<triangle3, original, frames, returned>>
bufferVars == <<operation, latest>>

----------------------------------------------------------------------------
(* f32 arithmetic, exact *)

Abs(i) == IF i < 0 THEN 0 - i ELSE i

Sign(i) == IF i > 0 THEN 1 ELSE IF i < 0 THEN 0 - 1 ELSE 0

RECURSIVE GCD(_, _)
GCD(a, b) == IF b = 0 THEN a ELSE GCD(b, a % b)

\* The f32 with value n/d (d may be negative or zero).
F(n, d) ==
    IF d = 0 THEN <<Sign(n), 0>>
    ELSE LET g == GCD(Abs(n), Abs(d))
             s == Sign(d)
         IN  <<(s * n) \div g, (s * d) \div g>>

I(n) == <<n, 1>>

INF == <<1, 0>>
NEG_INFINITY == <<0 - 1, 0>>
NAN == <<0, 0>>

IsFinite(a) == a[2] # 0
IsNaN(a) == a = NAN

FNeg(a) == <<0 - a[1], a[2]>>

\* Finite sums, products and quotients divide common factors out before they
\* multiply, which keeps the intermediate integers small.
FAdd(a, b) ==
    IF IsFinite(a) /\ IsFinite(b)
    THEN LET g == GCD(a[2], b[2])
         IN  F(a[1] * (b[2] \div g) + b[1] * (a[2] \div g), (a[2] \div g) * b[2])
    ELSE IF IsNaN(a) \/ IsNaN(b) THEN NAN
    ELSE IF IsFinite(a) THEN b
    ELSE IF IsFinite(b) THEN a
    ELSE IF a = b THEN a ELSE NAN

FSub(a, b) == FAdd(a, FNeg(b))

FMul(a, b) ==
    IF IsFinite(a) /\ IsFinite(b)
    THEN LET g == GCD(Abs(a[1]), b[2])
             h == GCD(Abs(b[1]), a[2])
         IN  F((a[1] \div g) * (b[1] \div h), (a[2] \div h) * (b[2] \div g))
    ELSE IF IsNaN(a) \/ IsNaN(b) THEN NAN
    ELSE <<Sign(a[1]) * Sign(b[1]), 0>>

FDiv(a, b) ==
    IF IsFinite(a) /\ IsFinite(b)
    THEN IF b[1] = 0 THEN <<Sign(a[1]), 0>> ELSE FMul(a, F(b[2], b[1]))
    ELSE IF IsNaN(a) \/ IsNaN(b) THEN NAN
    ELSE IF IsFinite(a) THEN I(0)
    ELSE IF IsFinite(b) THEN <<a[1] * (IF b[1] < 0 THEN 0 - 1 ELSE 1), 0>>
    ELSE NAN

\* Comparisons: every comparison with NaN is false.
FLt(a, b) ==
    /\ ~IsNaN(a)
    /\ ~IsNaN(b)
    /\ IF IsFinite(a) \/ IsFinite(b) THEN a[1] * b[2] < b[1] * a[2]
       ELSE a = NEG_INFINITY /\ b = INF

FGt(a, b) == FLt(b, a)

FEq(a, b) == ~IsNaN(a) /\ ~IsNaN(b) /\ a = b

FGe(a, b) == FGt(a, b) \/ FEq(a, b)

FLe(a, b) == FLt(a, b) \/ FEq(a, b)

\* f32::floor and f32::ceil followed by `as i32`, on finite values.
FloorInt(a) == a[1] \div a[2]

CeilInt(a) == 0 - ((0 - a[1]) \div a[2])

Floor(a) == IF IsFinite(a) THEN I(FloorInt(a)) ELSE a

----------------------------------------------------------------------------
(* colour.rs *)

Colour(red, green, blue, alpha) ==
    [red |-> red, green |-> green, blue |-> blue, alpha |-> alpha]

BLANK == Colour(I(0), I(0), I(0), I(0))
RED == Colour(I(1), I(0), I(0), I(1))
GREEN == Colour(I(0), I(1), I(0), I(1))
BLUE == Colour(I(0), I(0), I(1), I(1))

multiply_float(self, num) ==
    Colour(FMul(self.red, num), FMul(self.green, num),
           FMul(self.blue, num), FMul(self.alpha, num))

ColourAdd(self, rhs) ==
    Colour(FAdd(self.red, rhs.red), FAdd(self.green, rhs.green),
           FAdd(self.blue, rhs.blue), FAdd(self.alpha, rhs.alpha))

----------------------------------------------------------------------------
(* linear_algebra.rs *)

Vec3(x, y, z) == [x |-> x, y |-> y, z |-> z]

Vec2(x, y) == [x |-> x, y |-> y]

splat(d) == Vec3(d, d, d)

\* [1x4] x [4x4]: the input's homogeneous coordinate is one, the output is
\* divided by its homogeneous coordinate.
homogeneous_mult_matrix(self, matrix) ==
    LET vec_array == [i \in 1..4 |->
            FAdd(FAdd(FAdd(FMul(self.x, matrix[1][i]),
                           FMul(self.y, matrix[2][i])),
                      FMul(self.z, matrix[3][i])),
                 matrix[4][i])]
    IN  Vec3(FDiv(vec_array[1], vec_array[4]),
             FDiv(vec_array[2], vec_array[4]),
             FDiv(vec_array[3], vec_array[4]))

identity ==
    << <<I(1), I(0), I(0), I(0)>>,
       <<I(0), I(1), I(0), I(0)>>,
       <<I(0), I(0), I(1), I(0)>>,
       <<I(0), I(0), I(0), I(1)>> >>

----------------------------------------------------------------------------
(* camera.rs *)

FitResolutionGate == {"Fill", "Overscan"}

\* No fit applied: the canvas keeps the film gate's shape.
ScaleFactorsUnscaled(fit, film, resolution) ==
    <<I(1), I(1)>>

\* ScaleFactors with the ratio of Fill's first branch inverted.
ScaleFactorsRatioInverted(fit, film, resolution) ==
    IF fit = "Fill"
    THEN IF FGt(film, resolution)
         THEN <<FDiv(film, resolution), I(1)>>
         ELSE <<I(1), FDiv(film, resolution)>>
    ELSE IF FGt(film, resolution)
         THEN <<I(1), FDiv(film, resolution)>>
         ELSE <<FDiv(resolution, film), I(1)>>

\* The canvas x and y scale factors of Camera::new, by fit mode.
\* (film and resolution are film_gate_aspect_ratio and resolution_gate_aspect_ratio.)
ScaleFactors(fit, film, resolution) ==
    IF fit = "Fill"
    THEN IF FGt(film, resolution)
         THEN <<FDiv(resolution, film), I(1)>>
         ELSE <<I(1), FDiv(film, resolution)>>
    ELSE IF FGt(film, resolution)
         THEN <<I(1), FDiv(film, resolution)>>
         ELSE <<FDiv(resolution, film), I(1)>>

\* Camera::new.  The two angle-of-view fields are left out: they are atan
\* values, which have no exact representation, and nothing reads them.
CameraNew(matrix, image_size, focal_length, camera_aperture, z_near, z_far, fit_resolution_gate) ==
    LET film_gate_aspect_ratio == FDiv(camera_aperture.x, camera_aperture.y)
        resolution_gate_aspect_ratio == FDiv(I(image_size.x), I(image_size.y))
        scale == ScaleFactors(fit_resolution_gate, film_gate_aspect_ratio,
                              resolution_gate_aspect_ratio)
        scale_x == scale[1]
        scale_y == scale[2]
        canvas_height == FMul(FDiv(FDiv(camera_aperture.y, I(2)), focal_length), z_near)
        canvas_size == Vec2(FMul(FMul(canvas_height, film_gate_aspect_ratio), scale_x),
                            FMul(canvas_height, scale_y))
        bottom_left == Vec2(FDiv(canvas_size.x, I(0 - 2)), FDiv(canvas_size.y, I(0 - 2)))
        top_right == Vec2(FNeg(bottom_left.x), FNeg(bottom_left.y))
    IN  [transformation_matrix |-> matrix,
         image_size |-> image_size,
         focal_length |-> focal_length,
         camera_aperture |-> camera_aperture,
         z_near |-> z_near,
         z_far |-> z_far,
         fit_resolution_gate |-> fit_resolution_gate,
         canvas_size |-> canvas_size,
         screen_window |-> <<bottom_left, top_right>>,
         film_gate_aspect_ratio |-> film_gate_aspect_ratio,
         resolution_gate_aspect_ratio |-> resolution_gate_aspect_ratio]

Ok(value) == [ok |-> TRUE, value |-> value]

Err(error) == [ok |-> FALSE, error |-> error]

\* point_to_screen with `<=` and `>=` for `<` and `>`: it clips a point on a
\* clipping plane.
point_to_screen_planes_clipped(self, world_point) ==
    LET camera_point == homogeneous_mult_matrix(world_point, self.transformation_matrix)
    IN  IF FLe(camera_point.z, self.z_near) \/ FGe(camera_point.z, self.z_far)
        THEN Err("PointCLipped")
        ELSE LET proj_x == FMul(FDiv(camera_point.x, FNeg(camera_point.z)), self.z_near)
                 proj_y == FMul(FDiv(camera_point.y, camera_point.z), self.z_near)
             IN  Ok(Vec3(proj_x, proj_y, camera_point.z))

\* Converts a point from world space to screen space
point_to_screen(self, world_point) ==
    LET camera_point == homogeneous_mult_matrix(world_point, self.transformation_matrix)
    IN  IF FLt(camera_point.z, self.z_near) \/ FGt(camera_point.z, self.z_far)
        THEN Err("PointCLipped")
        ELSE LET proj_x == FMul(FDiv(camera_point.x, FNeg(camera_point.z)), self.z_near)
                 proj_y == FMul(FDiv(camera_point.y, camera_point.z), self.z_near)
             IN  Ok(Vec3(proj_x, proj_y, camera_point.z))

\* Converts a point from screen space to raster space
screen_to_raster(self, screen_point) ==
    LET ndc_x == FAdd(FDiv(screen_point.x, self.canvas_size.x), F(1, 2))
        ndc_y == FAdd(FDiv(screen_point.y, self.canvas_size.y), F(1, 2))
    IN  IF FGt(ndc_x, I(1)) \/ FLt(ndc_x, I(0)) \/ FGt(ndc_y, I(1)) \/ FLt(ndc_y, I(0))
        THEN Err("PointOutsideCanvas")
        ELSE Ok(Vec2(FloorInt(FMul(ndc_x, I(self.image_size.x))),
                     FloorInt(FMul(ndc_y, I(self.image_size.y)))))

\* Converts a point from world space to raster space (`?` passes the error on)
point_to_raster(self, world_point) ==
    LET screen_point == point_to_screen(self, world_point)
    IN  IF ~screen_point.ok THEN screen_point
        ELSE screen_to_raster(self, screen_point.value)

----------------------------------------------------------------------------
(* frame_buffer.rs and the sink of main.rs *)

\* usize has no negative values: `i as usize` wraps a negative i32 to the top
\* of the range.  TLC's integers are 32 bits wide, so the model's usize ends at
\* UsizeMax; every width and height of the model is far below it.
UsizeMax == 2147483647

\* A cast that keeps the magnitude of a negative coordinate.
AsUsizeMagnitude(i) == IF i < 0 THEN 0 - i ELSE i

AsUsize(i) == IF i < 0 THEN (UsizeMax + i) + 1 ELSE i

\* convert_coordinates with the row tested against the width.
convert_coordinates_square(px_x, px_y, width_px, height_px) ==
    IF px_x >= width_px \/ px_y >= width_px
    THEN [ok |-> FALSE, err |-> "PixelOutsideBuf"]
    ELSE LET write_y == height_px - px_y - 1
             index == px_x + (write_y * width_px)
         IN  [ok |-> TRUE, index |-> index]

\* convert_coordinates with the row offset not scaled by the width.
convert_coordinates_unscaled(px_x, px_y, width_px, height_px) ==
    IF px_x >= width_px \/ px_y >= height_px
    THEN [ok |-> FALSE, err |-> "PixelOutsideBuf"]
    ELSE LET write_y == height_px - px_y - 1
             index == px_x + write_y
         IN  [ok |-> TRUE, index |-> index]

\* Convert pixel coordinates to array index (Err is the string "PixelOutsideBuf")
convert_coordinates(px_x, px_y, width_px, height_px) ==
    IF px_x >= width_px \/ px_y >= height_px
    THEN [ok |-> FALSE, err |-> "PixelOutsideBuf"]
    ELSE LET write_y == height_px - px_y - 1
             index == px_x + (write_y * width_px)
         IN  [ok |-> TRUE, index |-> index]

\* The four bytes u32::from_be_bytes packs, in their order.
PackColour(colour) == <<colour.alpha, colour.red, colour.green, colour.blue>>

UnpackColour(bytes) == Colour(bytes[2], bytes[3], bytes[4], bytes[1])

\* FrameBufferTrait::write_buf for [u32; L]; buf is indexed from 1 in the model.
BufWrite(buf, px_x, px_y, colour, width_px, height_px) ==
    LET c == convert_coordinates(px_x, px_y, width_px, height_px)
    IN  IF ~c.ok THEN [ok |-> FALSE, err |-> c.err, buf |-> buf]
        ELSE [ok |-> TRUE, buf |-> [buf EXCEPT ![c.index + 1] = PackColour(colour)]]

BufRead(buf, px_x, px_y, width_px, height_px) ==
    LET c == convert_coordinates(px_x, px_y, width_px, height_px)
    IN  IF ~c.ok THEN [ok |-> FALSE, err |-> c.err]
        ELSE [ok |-> TRUE, colour |-> UnpackColour(buf[c.index + 1])]

FrameBufferNew(width_px, height_px, buf) ==
    [width_px |-> width_px, height_px |-> height_px, buf |-> buf]

write_buf(self, px_x, px_y, colour) ==
    LET r == BufWrite(self.buf, px_x, px_y, colour, self.width_px, self.height_px)
    IN  IF r.ok THEN [ok |-> TRUE, fb |-> [self EXCEPT !.buf = r.buf]]
        ELSE [ok |-> FALSE, err |-> r.err, fb |-> [self EXCEPT !.buf = r.buf]]

read_buf(self, px_x, px_y) ==
    BufRead(self.buf, px_x, px_y, self.width_px, self.height_px)

\* FrameBuffer::new(w, h, [0; w * h]): every word is zero.
ZeroBuffer(width_px, height_px) ==
    FrameBufferNew(width_px, height_px,
                   [i \in 1..(width_px * height_px) |-> <<I(0), I(0), I(0), I(0)>>])

\* FrameBuffer::clear_buf: BLANK to every pixel, column by column.
RECURSIVE ClearFrom(_, _, _)
ClearFrom(self, x, y) ==
    IF x >= self.width_px THEN self
    ELSE IF y >= self.height_px THEN ClearFrom(self, x + 1, 0)
    ELSE ClearFrom(write_buf(self, x, y, BLANK).fb, x, y + 1)

clear_buf(self) == ClearFrom(self, 0, 0)

----------------------------------------------------------------------------
(* rasterisation.rs *)

VertexAttributes(colour) == [colour |-> colour]

Vertex(vertex, attributes) == [vertex |-> vertex, attributes |-> attributes]

Triangle(v0, v1, v2) == [v0 |-> v0, v1 |-> v1, v2 |-> v2]

Range(min, max) == [min |-> min, max |-> max]

RECURSIVE FindMinMaxFrom(_, _, _, _)
FindMinMaxFrom(array, i, min, max) ==
    IF i > Len(array) THEN Range(min, max)
    ELSE LET element == array[i]
             max1 == IF FGt(element, max) THEN element ELSE max
             min1 == IF FLt(element, min) THEN element ELSE min
         IN  FindMinMaxFrom(array, i + 1, min1, max1)

find_min_max(array, type_min, type_max) ==
    FindMinMaxFrom(array, 1, type_max, type_min)

get_bounding_box(self) ==
    LET vertices_x == <<self.v0.vertex.x, self.v1.vertex.x, self.v2.vertex.x>>
        vertices_y == <<self.v0.vertex.y, self.v1.vertex.y, self.v2.vertex.y>>
    IN  [x |-> find_min_max(vertices_x, NEG_INFINITY, INF),
         y |-> find_min_max(vertices_y, NEG_INFINITY, INF)]

\* is_top_left with `>=` and `<=` for `>` and `<` in the left-edge test, which
\* counts every horizontal edge as a left edge.
is_top_left_or_level(v0, v1, w) ==
    LET is_top_edge == IF w = "CCW" THEN FEq(v0.y, v1.y) /\ FGt(v0.x, v1.x)
                                    ELSE FEq(v0.y, v1.y) /\ FLt(v0.x, v1.x)
        is_left_edge == IF w = "CCW" THEN FGe(v0.y, v1.y) ELSE FLe(v0.y, v1.y)
    IN  is_top_edge \/ is_left_edge

\* Return true if this edge is a top or left edge; the edge goes from v0 to v1
is_top_left(v0, v1, w) ==
    LET is_top_edge == IF w = "CCW" THEN FEq(v0.y, v1.y) /\ FGt(v0.x, v1.x)
                                    ELSE FEq(v0.y, v1.y) /\ FLt(v0.x, v1.x)
        is_left_edge == IF w = "CCW" THEN FGt(v0.y, v1.y) ELSE FLt(v0.y, v1.y)
    IN  is_top_edge \/ is_left_edge

\* The edge function of v0 -> v1 at p; changes sign if the winding order is CCW
edge_fn(v0, v1, p, w) ==
    LET result == FSub(FMul(FSub(p.x, v0.x), FSub(v1.y, v0.y)),
                       FMul(FSub(p.y, v0.y), FSub(v1.x, v0.x)))
    IN  IF w = "CCW" THEN FNeg(result) ELSE result

Bias(v0, v1, w) == IF is_top_left(v0, v1, w) THEN I(0) ELSE I(0 - 1)

\* The inner loop of rasterise_triangle: one column x, rows y .. y_max - 1.
\* Yields one record per pixel it scans, in order: the edge values it tests
\* and, where the test passes, the write it attempts.
RECURSIVE ScanColumn(_, _, _, _, _, _)
ScanColumn(c, x, y, w0, w1, w2) ==
    IF y >= c.y_max THEN <<>>
    ELSE LET point_overlap == FGe(w0, I(0)) /\ FGe(w1, I(0)) /\ FGe(w2, I(0))
             n0 == FAdd(w0, c.delta_w0_y)
             n1 == FAdd(w1, c.delta_w1_y)
             n2 == FAdd(w2, c.delta_w2_y)
             rest == ScanColumn(c, x, y + 1, n0, n1, n2)
             tested == [x |-> x, y |-> y, w0 |-> w0, w1 |-> w1, w2 |-> w2,
                        point_overlap |-> point_overlap]
         IN  IF ~point_overlap THEN <<tested>> \o rest
             ELSE LET l0 == FDiv(n1, c.double_triangle_area)
                      l1 == FDiv(n2, c.double_triangle_area)
                      l2 == FDiv(n0, c.double_triangle_area)
                      pixel_colour ==
                          ColourAdd(ColourAdd(
                              multiply_float(c.triangle.v0.attributes.colour, l0),
                              multiply_float(c.triangle.v1.attributes.colour, l1)),
                              multiply_float(c.triangle.v2.attributes.colour, l2))
                  IN  <<[x |-> x, y |-> y, w0 |-> w0, w1 |-> w1, w2 |-> w2,
                         point_overlap |-> point_overlap,
                         l0 |-> l0, l1 |-> l1, l2 |-> l2,
                         colour |-> pixel_colour]>> \o rest

\* The outer loop of rasterise_triangle: columns x .. x_max - 1.
RECURSIVE ScanColumns(_, _, _, _, _)
ScanColumns(c, x, col_w0, col_w1, col_w2) ==
    IF x >= c.x_max THEN <<>>
    ELSE ScanColumn(c, x, c.y_min, col_w0, col_w1, col_w2)
         \o ScanColumns(c, x + 1, FAdd(col_w0, c.delta_w0_x),
                        FAdd(col_w1, c.delta_w1_x), FAdd(col_w2, c.delta_w2_x))

\* The scanned pixels that reach write_buf (those not skipped by `continue`).
Overlaps(tested) == tested.point_overlap

\* What a scan yields: its divisor, the pixels it scanned and, of those, the
\* ones it called write_buf for.
ScanOutcome(double_triangle_area, scanned) ==
    [double_triangle_area |-> double_triangle_area,
     scanned |-> scanned,
     attempts |-> SelectSeq(scanned, Overlaps)]

\* rasterise_triangle up to its writes: the divisor it computes, the pixels it
\* scans and the sequence of write_buf calls it makes.
Scan(triangle, w) ==
    LET a == triangle.v0.vertex
        b == triangle.v1.vertex
        d == triangle.v2.vertex
        bias0 == Bias(a, b, w)
        bias1 == Bias(b, d, w)
        bias2 == Bias(d, a, w)
        bounding_box == get_bounding_box(triangle)
        start_point == Vec3(FAdd(Floor(bounding_box.x.min), F(1, 2)),
                            FAdd(Floor(bounding_box.y.min), F(1, 2)), I(0))
        col_w0 == FAdd(edge_fn(a, b, start_point, w), bias0)
        col_w1 == FAdd(edge_fn(b, d, start_point, w), bias1)
        col_w2 == FAdd(edge_fn(d, a, start_point, w), bias2)
        c == [triangle |-> triangle,
              delta_w0_x |-> FSub(a.y, b.y),
              delta_w1_x |-> FSub(b.y, d.y),
              delta_w2_x |-> FSub(d.y, a.y),
              delta_w0_y |-> FSub(b.x, a.x),
              delta_w1_y |-> FSub(d.x, b.x),
              delta_w2_y |-> FSub(a.x, d.x),
              x_min |-> FloorInt(bounding_box.x.min),
              x_max |-> CeilInt(bounding_box.x.max),
              y_min |-> FloorInt(bounding_box.y.min),
              y_max |-> CeilInt(bounding_box.y.max),
              double_triangle_area |-> FAdd(FAdd(col_w0, col_w1), col_w2)]
    IN  ScanOutcome(c.double_triangle_area,
                    ScanColumns(c, c.x_min, col_w0, col_w1, col_w2))

\* The write_buf calls of one scan, applied in order; a failed write is dropped
\* (`let _ =`).  Yields the sink and each call's outcome.
RECURSIVE ApplyWrites(_, _, _, _)
ApplyWrites(fb, attempts, i, results) ==
    IF i > Len(attempts) THEN [fb |-> fb, results |-> results]
    ELSE LET r == write_buf(fb, AsUsize(attempts[i].x), AsUsize(attempts[i].y),
                            attempts[i].colour)
         IN  ApplyWrites(r.fb, attempts, i + 1, Append(results, r.ok))

\* The writes of a scan s of the triangle, made on the sink fb.
WriteScan(triangle, fb, w, s) ==
    LET a == ApplyWrites(fb, s.attempts, 1, <<>>)
    IN  [frame_buffer |-> a.fb,
         call |-> [triangle |-> triangle,
                   winding |-> w,
                   double_triangle_area |-> s.double_triangle_area,
                   scanned |-> s.scanned,
                   attempts |-> s.attempts,
                   results |-> a.results]]

rasterise_triangle(triangle, fb, w) == WriteScan(triangle, fb, w, Scan(triangle, w))

\* Triangle::transform_this_triangle: the triangle after the in-place transform.
transform_this_triangle(self, transformation_matrix) ==
    [self EXCEPT
        !.v0.vertex = homogeneous_mult_matrix(@, transformation_matrix),
        !.v1.vertex = homogeneous_mult_matrix(@, transformation_matrix),
        !.v2.vertex = homogeneous_mult_matrix(@, transformation_matrix)]

\* transform_triangle with a loop that stops one vertex early: v2 keeps the
\* position the new triangle was built with.
transform_triangle_two_vertices(self, transformation_matrix) ==
    LET vertices == <<self.v0.vertex, self.v1.vertex, self.v2.vertex>>
        new_triangle == Triangle(Vertex(splat(I(0)), self.v0.attributes),
                                 Vertex(splat(I(0)), self.v1.attributes),
                                 Vertex(splat(I(0)), self.v2.attributes))
    IN  [new_triangle EXCEPT
            !.v0.vertex = homogeneous_mult_matrix(vertices[1], transformation_matrix),
            !.v1.vertex = homogeneous_mult_matrix(vertices[2], transformation_matrix)]

\* Triangle::transform_triangle: the new triangle it returns.
transform_triangle(self, transformation_matrix) ==
    LET vertices == <<self.v0.vertex, self.v1.vertex, self.v2.vertex>>
        new_triangle == Triangle(Vertex(splat(I(0)), self.v0.attributes),
                                 Vertex(splat(I(0)), self.v1.attributes),
                                 Vertex(splat(I(0)), self.v2.attributes))
    IN  [new_triangle EXCEPT
            !.v0.vertex = homogeneous_mult_matrix(vertices[1], transformation_matrix),
            !.v1.vertex = homogeneous_mult_matrix(vertices[2], transformation_matrix),
            !.v2.vertex = homogeneous_mult_matrix(vertices[3], transformation_matrix)]

----------------------------------------------------------------------------
(* The callers: main.rs and the inputs of the model *)

WINDING_ORDER == "CCW"

\* Bounds of the inputs.  Vertex coordinates are multiples of half a pixel:
\* v0 lies in pixel (1, 1), the other vertices at most Extent half-pixels
\* from it in x and in y.
Extent == 2
SinkWidth == 5
SinkHeight == 5
MaxImage == 3
MaxAperture == 3
MaxFocal == 2
ScreenSteps == 3
MaxXY == 1
MaxFrames == 3
ClipSink == 2
BufWidth == 2
BufHeight == 3
MaxOps == 3

Idle == "idle"

NoProjection == [op |-> "none", input |-> Idle, result |-> Idle]

Half(k) == F(k, 2)

Offsets == (0 - Extent)..Extent

Anchors == {2, 3}

WindingOrders == {"CCW", "CW"}

\* The vertex colours of main.rs's triangle3, and those of a solid triangle.
Shaded == <<RED, GREEN, BLUE>>
Solid == <<RED, RED, RED>>

At(hx, hy, colour) ==
    Vertex(Vec3(Half(hx), Half(hy), I(0)), VertexAttributes(colour))

InputTriangles(cs) ==
    {Triangle(At(ax, ay, cs[1]), At(ax + bx, ay + by, cs[2]), At(ax + cx, ay + cy, cs[3])) :
        ax \in Anchors, ay \in Anchors, bx \in Offsets, by \in Offsets,
        cx \in Offsets, cy \in Offsets}

\* The triangle (0,0), (4,0), (0,4), solid red.
ExampleTriangle == Triangle(At(0, 0, RED), At(8, 0, RED), At(0, 8, RED))

FrontFacing(t, w) ==
    FGt(edge_fn(t.v0.vertex, t.v1.vertex, t.v2.vertex, w), I(0))

\* Two front-facing triangles that share the edge v0 - v1 of the first, which
\* the second traverses from v1 to v0.
AdjacentPairs ==
    {p \in {<<Triangle(At(2, 2, RED), At(2 + bx, 2 + by, RED), At(2 + cx, 2 + cy, RED)),
              Triangle(At(2 + bx, 2 + by, BLUE), At(2, 2, BLUE), At(2 + dx, 2 + dy, BLUE))>> :
                bx \in Offsets, by \in Offsets, cx \in Offsets, cy \in Offsets,
                dx \in Offsets, dy \in Offsets} :
        FrontFacing(p[1], WINDING_ORDER) /\ FrontFacing(p[2], WINDING_ORDER)}

RasterIdle ==
    /\ pending = <<>>
    /\ winding = WINDING_ORDER
    /\ frame_buffer = ZeroBuffer(SinkWidth, SinkHeight)
    /\ calls = <<>>

CameraIdle ==
    /\ camera_args = Idle
    /\ camera = Idle
    /\ built = [fit \in FitResolutionGate |-> <<>>]
    /\ projection = NoProjection

TransformIdle ==
    /\ triangle3 = Idle
    /\ original = Idle
    /\ frames = <<>>
    /\ returned = <<>>

NoOperation == [op |-> "none", number |-> 0]

BufferIdle ==
    /\ operation = NoOperation
    /\ latest = <<>>

\* One triangle with main's vertex colours, either winding order, an empty sink.
InitRaster ==
    /\ \E t \in InputTriangles(Shaded) : pending = <<t>>
    /\ winding \in WindingOrders
    /\ frame_buffer = ZeroBuffer(SinkWidth, SinkHeight)
    /\ calls = <<>>
    /\ CameraIdle
    /\ TransformIdle
    /\ BufferIdle

\* One triangle of a single colour, either winding order, an empty sink.
InitSolid ==
    /\ \E t \in InputTriangles(Solid) \cup {ExampleTriangle} : pending = <<t>>
    /\ winding \in WindingOrders
    /\ frame_buffer = ZeroBuffer(SinkWidth, SinkHeight)
    /\ calls = <<>>
    /\ CameraIdle
    /\ TransformIdle
    /\ BufferIdle

\* Two adjacent triangles in the configured winding order, an empty sink.
InitAdjacent ==
    /\ \E p \in AdjacentPairs : pending = p
    /\ winding = WINDING_ORDER
    /\ frame_buffer = ZeroBuffer(SinkWidth, SinkHeight)
    /\ calls = <<>>
    /\ CameraIdle
    /\ TransformIdle
    /\ BufferIdle

\* Triangles about a corner of a sink of ClipSink x ClipSink pixels: v0 is the
\* corner (0, 0) or the centre of the last pixel, so that the bounding box
\* reaches negative coordinates or passes the last column and row.
ClippedTriangles ==
    {Triangle(At(a, a, RED), At(a + bx, a + by, GREEN), At(a + cx, a + cy, BLUE)) :
        a \in {0, 2 * ClipSink - 1}, bx \in Offsets, by \in Offsets,
        cx \in Offsets, cy \in Offsets}

\* One triangle that may lie partly outside a small sink, either winding order.
InitClipped ==
    /\ \E t \in ClippedTriangles : pending = <<t>>
    /\ winding \in WindingOrders
    /\ frame_buffer = ZeroBuffer(ClipSink, ClipSink)
    /\ calls = <<>>
    /\ CameraIdle
    /\ TransformIdle
    /\ BufferIdle

\* The caller rasterises its next triangle into the sink.
Rasterise ==
    /\ pending # <<>>
    /\ LET r == rasterise_triangle(Head(pending), frame_buffer, winding)
       IN  /\ frame_buffer' = r.frame_buffer
           /\ calls' = Append(calls, r.call)
    /\ pending' = Tail(pending)
    /\ UNCHANGED <<winding, cameraVars, transformVars, bufferVars>>

NextRaster == Rasterise

SpecRaster == InitRaster /\ [][NextRaster]_vars

SpecSolid == InitSolid /\ [][NextRaster]_vars

SpecAdjacent == InitAdjacent /\ [][NextRaster]_vars

SpecClipped == InitClipped /\ [][NextRaster]_vars

(* Camera construction *)

\* Rotation-free world-to-camera matrices: the identity, and the translation
\* of the camera set-up kept in main.rs.
CameraTranslation ==
    << <<I(1), I(0), I(0), I(0)>>,
       <<I(0), I(1), I(0), I(0)>>,
       <<I(0), I(0), I(1), I(0)>>,
       <<I(0), I(0), I(0 - 10), I(1)>> >>

Args(m, iw, ih, f, aw, ah, near, far) ==
    [transformation_matrix |-> m, image_size |-> Vec2(iw, ih), focal_length |-> I(f),
     camera_aperture |-> Vec2(I(aw), I(ah)), z_near |-> near, z_far |-> far]

\* The 36x24mm, 50mm, 0.1-100, 800x600 camera, and main.rs's 100x100, 15mm one.
ExampleArgs ==
    {Args(m, 800, 600, 50, 36, 24, F(1, 10), I(100)) : m \in {identity, CameraTranslation}}
    \cup {Args(CameraTranslation, 100, 100, 15, 36, 24, F(1, 10), I(100))}

ConstructionArgs ==
    {Args(identity, iw, ih, f, aw, ah, near, I(100)) :
        iw \in 1..MaxImage, ih \in 1..MaxImage, f \in 1..MaxFocal,
        aw \in 1..MaxAperture, ah \in 1..MaxAperture, near \in {F(1, 10), I(1)}}
    \cup ExampleArgs

New(a, fit) ==
    CameraNew(a.transformation_matrix, a.image_size, a.focal_length,
              a.camera_aperture, a.z_near, a.z_far, fit)

InitConstruction ==
    /\ camera_args \in ConstructionArgs
    /\ camera = Idle
    /\ built = [fit \in FitResolutionGate |-> <<>>]
    /\ projection = NoProjection
    /\ RasterIdle
    /\ TransformIdle
    /\ BufferIdle

\* The caller (re)constructs its camera from its arguments, in either fit mode.
NewCamera ==
    /\ \E fit \in FitResolutionGate :
        /\ camera' = New(camera_args, fit)
        /\ built' = [built EXCEPT ![fit] = <<camera'.canvas_size>>]
    /\ UNCHANGED <<camera_args, projection, rasterVars, transformVars, bufferVars>>

NextConstruction == NewCamera

SpecConstruction == InitConstruction /\ [][NextConstruction]_vars

(* Projection *)

\* World points: a grid around the axis at depths on both sides of the camera
\* and of both clipping planes, and the four points that project onto the
\* corners of the screen window.
Depths ==
    {I(0 - 101), I(0 - 100), I(0 - 10), I(0 - 1), F(0 - 1, 10), I(0),
     F(1, 20), F(1, 10), I(1), I(10), I(100), I(101), I(120)}

WorldPoints(self) ==
    {Vec3(I(x), I(y), z) : x \in (0 - MaxXY)..MaxXY, y \in (0 - MaxXY)..MaxXY, z \in Depths}
    \cup {Vec3(FMul(self.canvas_size.x, F(sx, 2)), FMul(self.canvas_size.y, F(sy, 2)), z) :
            sx \in {0 - 1, 1}, sy \in {0 - 1, 1},
            z \in {self.z_near, FSub(self.z_near, self.transformation_matrix[4][3])}}

\* Screen points: multiples of a quarter of the canvas size, inside the screen
\* window, on its border and outside it.
ScreenPoints(self) ==
    {Vec3(FMul(self.canvas_size.x, F(kx, 4)), FMul(self.canvas_size.y, F(ky, 4)), I(1)) :
        kx \in (0 - ScreenSteps)..ScreenSteps, ky \in (0 - ScreenSteps)..ScreenSteps}

InitProjection ==
    /\ camera_args \in ExampleArgs
    /\ \E fit \in FitResolutionGate :
        /\ camera = New(camera_args, fit)
        /\ built = [f \in FitResolutionGate |-> IF f = fit THEN <<camera.canvas_size>> ELSE <<>>]
    /\ projection = NoProjection
    /\ RasterIdle
    /\ TransformIdle
    /\ BufferIdle

\* A projection reads the camera and writes nothing, so its outcome does not
\* depend on the calls before it: each behaviour records one call.
Project(op, input, result) ==
    /\ projection.op = "none"
    /\ projection' = [op |-> op, input |-> input, result |-> result]
    /\ UNCHANGED <<camera_args, camera, built, rasterVars, transformVars, bufferVars>>

PointToScreen ==
    \E p \in WorldPoints(camera) : Project("point_to_screen", p, point_to_screen(camera, p))

ScreenToRaster ==
    \E p \in ScreenPoints(camera) : Project("screen_to_raster", p, screen_to_raster(camera, p))

PointToRaster ==
    \E p \in WorldPoints(camera) : Project("point_to_raster", p, point_to_raster(camera, p))

NextProjection == PointToScreen \/ ScreenToRaster \/ PointToRaster

SpecProjection == InitProjection /\ [][NextProjection]_vars

(* main *)

\* main's rotation about the z axis, by the angle whose cosine is 3/5 (the
\* source's angle is 0.03 rad, whose cosine and sine are not rational).
transformation_matrix ==
    << <<F(3, 5), F(0 - 4, 5), I(0), I(0)>>,
       <<F(4, 5), F(3, 5), I(0), I(0)>>,
       <<I(0), I(0), I(1), I(0)>>,
       <<I(0), I(0), I(0), I(1)>> >>

\* main's translation to the centre of the sink.
centre == Vec3(I(2), I(2), I(0))

translation_matrix ==
    << <<I(1), I(0), I(0), I(0)>>,
       <<I(0), I(1), I(0), I(0)>>,
       <<I(0), I(0), I(1), I(0)>>,
       <<centre.x, centre.y, centre.z, I(1)>> >>

\* A matrix whose homogeneous coordinate is not one.
ProjectiveMatrix ==
    << <<I(1), I(0), I(0), I(0)>>,
       <<I(0), I(2), I(0), I(0)>>,
       <<I(0), I(0), I(1), I(0)>>,
       <<I(1), I(0), I(0), I(2)>> >>

Matrices == {translation_matrix, ProjectiveMatrix}

\* triangle3 of main.rs at the scale of the model's sink, and a solid one.
MainTriangles ==
    {Triangle(At(0 - 3, 0 - 3, cs[1]), At(4, 1, cs[2]), At(0 - 1, 4, cs[3])) :
        cs \in {Shaded, Solid}}

InitMain ==
    /\ triangle3 \in MainTriangles
    /\ original = triangle3
    /\ frames = <<>>
    /\ returned = <<>>
    /\ RasterIdle
    /\ CameraIdle
    /\ BufferIdle

\* One pass of main's loop: clear the sink, rotate triangle3 in place and
\* rasterise a translated copy of it.
Frame ==
    /\ Len(frames) < MaxFrames
    /\ triangle3' = transform_this_triangle(triangle3, transformation_matrix)
    /\ frames' = Append(frames, transformation_matrix)
    /\ LET copy == transform_triangle(triangle3', translation_matrix)
           r == rasterise_triangle(copy, clear_buf(frame_buffer), WINDING_ORDER)
       IN  /\ returned' = <<[input |-> triangle3', matrix |-> translation_matrix,
                            output |-> copy, self |-> triangle3']>>
           /\ frame_buffer' = r.frame_buffer
           /\ calls' = <<r.call>>
    /\ UNCHANGED <<pending, winding, original, cameraVars, bufferVars>>

\* A call of transform_this_triangle on triangle3.
TransformThis ==
    /\ Len(frames) < MaxFrames
    /\ \E m \in Matrices :
        /\ triangle3' = transform_this_triangle(triangle3, m)
        /\ frames' = Append(frames, m)
    /\ UNCHANGED <<original, returned, rasterVars, cameraVars, bufferVars>>

\* A call of transform_triangle on triangle3: `&self`, so triangle3 is not
\* written; `self` is triangle3 as the call leaves it.
TransformTriangle ==
    /\ \E m \in Matrices :
        returned' = <<[input |-> triangle3, matrix |-> m,
                       output |-> transform_triangle(triangle3, m), self |-> triangle3]>>
    /\ UNCHANGED <<triangle3, original, frames, rasterVars, cameraVars, bufferVars>>

NextMain == Frame \/ TransformThis \/ TransformTriangle

SpecMain == InitMain /\ [][NextMain]_vars

(* The pixel sink used directly: write_buf, read_buf and clear_buf *)

\* The pixels of a sink.
Pixels(self) == {<<x, y>> : x \in 0..(self.width_px - 1), y \in 0..(self.height_px - 1)}

\* usize arguments for one axis: every coordinate inside, the first one
\* outside, and the value a coordinate of -1 becomes under `as usize`.
Coordinates(limit) == (0..limit) \cup {AsUsize(0 - 1)}

\* Two colours of byte channels, no two channels of the second alike.
Colours8 == {BLANK, Colour(I(255), I(128), I(64), I(32))}

\* main's sink as constructed: FrameBuffer::new(w, h, [0; w * h]).
InitBuffer ==
    /\ frame_buffer = ZeroBuffer(BufWidth, BufHeight)
    /\ operation = NoOperation
    /\ latest = [px \in Pixels(ZeroBuffer(BufWidth, BufHeight)) |-> BLANK]
    /\ pending = <<>>
    /\ winding = WINDING_ORDER
    /\ calls = <<>>
    /\ CameraIdle
    /\ TransformIdle

WriteBuf ==
    /\ operation.number < MaxOps
    /\ \E px_x \in Coordinates(frame_buffer.width_px),
          px_y \in Coordinates(frame_buffer.height_px), colour \in Colours8 :
            LET r == write_buf(frame_buffer, px_x, px_y, colour)
            IN  /\ frame_buffer' = r.fb
                /\ operation' = [op |-> "write_buf", number |-> operation.number + 1,
                                 px_x |-> px_x, px_y |-> px_y, colour |-> colour,
                                 result |-> [f \in DOMAIN r \ {"fb"} |-> r[f]],
                                 before |-> frame_buffer]
                /\ latest' = IF r.ok THEN [latest EXCEPT ![<<px_x, px_y>>] = colour]
                             ELSE latest
    /\ UNCHANGED <<pending, winding, calls, cameraVars, transformVars>>

ReadBuf ==
    /\ operation.number < MaxOps
    /\ \E px_x \in Coordinates(frame_buffer.width_px),
          px_y \in Coordinates(frame_buffer.height_px) :
            operation' = [op |-> "read_buf", number |-> operation.number + 1,
                          px_x |-> px_x, px_y |-> px_y,
                          result |-> read_buf(frame_buffer, px_x, px_y),
                          before |-> frame_buffer]
    /\ UNCHANGED <<latest, rasterVars, cameraVars, transformVars>>

ClearBuf ==
    /\ operation.number < MaxOps
    /\ frame_buffer' = clear_buf(frame_buffer)
    /\ operation' = [op |-> "clear_buf", number |-> operation.number + 1,
                     before |-> frame_buffer]
    /\ latest' = [px \in DOMAIN latest |-> BLANK]
    /\ UNCHANGED <<pending, winding, calls, cameraVars, transformVars>>

NextBuffer == WriteBuf \/ ReadBuf \/ ClearBuf

SpecBuffer == InitBuffer /\ [][NextBuffer]_vars

(* The whole model *)

Init == InitRaster \/ InitSolid \/ InitAdjacent \/ InitConstruction \/ InitProjection \/ InitMain
        \/ InitBuffer \/ InitClipped

Next == Rasterise \/ NewCamera \/ PointToScreen \/ ScreenToRaster \/ PointToRaster
        \/ Frame \/ TransformThis \/ TransformTriangle \/ WriteBuf \/ ReadBuf \/ ClearBuf

Spec == Init /\ [][Next]_vars

----------------------------------------------------------------------------
(* Properties *)

SinkPixels == {<<x, y>> : x \in 0..(frame_buffer.width_px - 1),
                          y \in 0..(frame_buffer.height_px - 1)}

PixelCentre(px) == Vec3(F(2 * px[1] + 1, 2), F(2 * px[2] + 1, 2), I(0))

\* The pixels a call wrote: those of its write_buf calls that returned Ok.
Written(call) ==
    {<<call.attempts[i].x, call.attempts[i].y>> :
        i \in {j \in 1..Len(call.attempts) : call.results[j]}}

\* Twice the signed area of a triangle, positive when its vertices are in the
\* winding order w.
DoubleArea(t, w) ==
    LET ccw == FSub(FMul(FSub(t.v1.vertex.x, t.v0.vertex.x), FSub(t.v2.vertex.y, t.v0.vertex.y)),
                    FMul(FSub(t.v1.vertex.y, t.v0.vertex.y), FSub(t.v2.vertex.x, t.v0.vertex.x)))
    IN  IF w = "CCW" THEN ccw ELSE FNeg(ccw)

\* Twice the signed area of (a, b, p): zero when p is on the line through a and b.
Cross(a, b, p) ==
    FSub(FMul(FSub(b.x, a.x), FSub(p.y, a.y)), FMul(FSub(b.y, a.y), FSub(p.x, a.x)))

Dot(a, b, p) ==
    FAdd(FMul(FSub(b.x, a.x), FSub(p.x, a.x)), FMul(FSub(b.y, a.y), FSub(p.y, a.y)))

\* p is on the segment from a to b and is neither endpoint.
StrictlyBetween(a, b, p) ==
    /\ FEq(Cross(a, b, p), I(0))
    /\ FGt(Dot(a, b, p), I(0))
    /\ FGt(Dot(b, a, p), I(0))

\* p is in the interior of a triangle whose vertices are in the winding order w.
StrictlyInside(t, w, p) ==
    LET s == IF w = "CCW" THEN I(1) ELSE I(0 - 1)
    IN  /\ FGt(FMul(s, Cross(t.v0.vertex, t.v1.vertex, p)), I(0))
        /\ FGt(FMul(s, Cross(t.v1.vertex, t.v2.vertex, p)), I(0))
        /\ FGt(FMul(s, Cross(t.v2.vertex, t.v0.vertex, p)), I(0))

\* The edge the two triangles of SpecAdjacent share is v0 - v1 of the first.
OnSharedEdge(px) ==
    StrictlyBetween(calls[1].triangle.v0.vertex, calls[1].triangle.v1.vertex,
                    PixelCentre(px))

\* C1: once two adjacent triangles in the configured winding order are both
\* rasterised, every pixel of the sink whose centre is on their shared edge,
\* between its endpoints, was written by exactly one of the two calls.
C1_SharedEdgeWrittenOnce ==
    Len(calls) = 2 =>
        \A px \in SinkPixels :
            OnSharedEdge(px) => (px \in Written(calls[1])) # (px \in Written(calls[2]))

\* C2: once two adjacent front-facing triangles are both rasterised, every
\* pixel of the sink whose centre is inside their union and not on its outer
\* boundary (inside one of the two, or on the shared edge between its
\* endpoints) was written by at least one of the two calls.
C2_NoCoverageGap ==
    Len(calls) = 2 =>
        \A px \in SinkPixels :
            (\/ StrictlyInside(calls[1].triangle, winding, PixelCentre(px))
             \/ StrictlyInside(calls[2].triangle, winding, PixelCentre(px))
             \/ OnSharedEdge(px))
            => px \in Written(calls[1]) \cup Written(calls[2])

\* C3: a call of rasterise_triangle on a triangle whose signed area under the
\* given winding order is zero or negative writes no pixel: none of its
\* write_buf calls succeeds and the sink is as it was before the call.
C3_NonPositiveAreaWritesNothing ==
    \A i \in 1..Len(calls) :
        FLe(DoubleArea(calls[i].triangle, calls[i].winding), I(0)) =>
            /\ Written(calls[i]) = {}
            /\ frame_buffer = ZeroBuffer(SinkWidth, SinkHeight)

\* A zero-area triangle of three distinct collinear vertices was rasterised,
\* and the centre of a pixel of the sink lies on it.
C3_Witness ==
    /\ Len(calls) = 1
    /\ LET t == calls[1].triangle
       IN  /\ FEq(DoubleArea(t, calls[1].winding), I(0))
           /\ t.v0.vertex # t.v1.vertex
           /\ t.v1.vertex # t.v2.vertex
           /\ t.v2.vertex # t.v0.vertex
           /\ \E px \in SinkPixels :
                \/ StrictlyBetween(t.v0.vertex, t.v1.vertex, PixelCentre(px))
                \/ StrictlyBetween(t.v1.vertex, t.v2.vertex, PixelCentre(px))
                \/ StrictlyBetween(t.v2.vertex, t.v0.vertex, PixelCentre(px))

\* C4: for every front-facing triangle of positive area and every pixel its
\* rasterise_triangle call wrote, the weights l0, l1, l2 used for the pixel
\* sum to exactly 1.
C4_WeightsSumToOne ==
    \A i \in 1..Len(calls) :
        FGt(DoubleArea(calls[i].triangle, calls[i].winding), I(0)) =>
            \A j \in 1..Len(calls[i].attempts) :
                calls[i].results[j] =>
                    LET a == calls[i].attempts[j]
                    IN  FEq(FAdd(FAdd(a.l0, a.l1), a.l2), I(1))

SameColour(c, d) ==
    /\ FEq(c.red, d.red)
    /\ FEq(c.green, d.green)
    /\ FEq(c.blue, d.blue)
    /\ FEq(c.alpha, d.alpha)

\* C5: when the three vertices carry the same colour c, every pixel the call
\* wrote received exactly c; and the call on the triangle (0,0), (4,0), (0,4),
\* solid red, with winding CCW wrote pixel (1,1), which reads back as red with
\* alpha 1, and made no write to pixel (4,4).
C5_SolidTriangleKeepsItsColour ==
    \A i \in 1..Len(calls) :
        LET call == calls[i]
            c == call.triangle.v0.attributes.colour
        IN  /\ (/\ call.triangle.v1.attributes.colour = c
                /\ call.triangle.v2.attributes.colour = c)
               => \A j \in 1..Len(call.attempts) :
                      call.results[j] => SameColour(call.attempts[j].colour, c)
            /\ (call.triangle = ExampleTriangle /\ call.winding = "CCW")
               => /\ <<1, 1>> \in Written(call)
                  /\ read_buf(frame_buffer, 1, 1) = [ok |-> TRUE, colour |-> RED]
                  /\ \A j \in 1..Len(call.attempts) :
                        <<call.attempts[j].x, call.attempts[j].y>> # <<4, 4>>

\* The camera of the example: 36x24mm aperture, 50mm, 800x600, Fill.
IsExampleCamera ==
    /\ camera.camera_aperture = Vec2(I(36), I(24))
    /\ camera.focal_length = I(50)
    /\ camera.image_size = Vec2(800, 600)
    /\ camera.fit_resolution_gate = "Fill"

\* C6: a pixel coordinate screen_to_raster returns is a coordinate of the
\* image, 0 <= x < width and 0 <= y < height; and the example camera maps the
\* corner (canvas_width/2, canvas_height/2) of its screen window to a pixel
\* with x = 799 and y = 0 or y = 599.
C6_RasterPointInsideImage ==
    projection.op = "screen_to_raster" =>
        /\ projection.result.ok =>
            /\ 0 <= projection.result.value.x
            /\ projection.result.value.x < camera.image_size.x
            /\ 0 <= projection.result.value.y
            /\ projection.result.value.y < camera.image_size.y
        /\ (/\ IsExampleCamera
            /\ projection.input.x = FDiv(camera.canvas_size.x, I(2))
            /\ projection.input.y = FDiv(camera.canvas_size.y, I(2)))
           => /\ projection.result.ok
              /\ projection.result.value.x = 799
              /\ projection.result.value.y \in {0, 599}

\* C7: the canvas Camera::new computes in Fill mode is at most the canvas it
\* computes from the same arguments in Overscan mode, in x and in y.
C7_FillCanvasWithinOverscanCanvas ==
    (built["Fill"] # <<>> /\ built["Overscan"] # <<>>) =>
        /\ FLe(built["Fill"][1].x, built["Overscan"][1].x)
        /\ FLe(built["Fill"][1].y, built["Overscan"][1].y)

\* Both cameras were built from one set of arguments whose film gate is wider
\* than its resolution gate.
C7_Witness ==
    /\ built["Fill"] # <<>>
    /\ built["Overscan"] # <<>>
    /\ FGt(FDiv(camera_args.camera_aperture.x, camera_args.camera_aperture.y),
           FDiv(I(camera_args.image_size.x), I(camera_args.image_size.y)))

\* The z of a world point after the camera's world-to-camera transform.
CameraDepth(world_point) ==
    homogeneous_mult_matrix(world_point, camera.transformation_matrix).z

C9_PointInFrontAccepted ==
    projection.op = "point_to_screen" =>
        LET z == CameraDepth(projection.input)
        IN  (/\ FLt(z, I(0))
             /\ FGe(FNeg(z), camera.z_near)
             /\ FLe(FNeg(z), camera.z_far))
            => projection.result.ok

Vertices(t) == <<t.v0, t.v1, t.v2>>

RECURSIVE ApplyAll(_, _, _)
ApplyAll(p, ms, i) ==
    IF i > Len(ms) THEN p ELSE ApplyAll(homogeneous_mult_matrix(p, ms[i]), ms, i + 1)

\* C10: the transforms change positions only.  triangle3 keeps the attributes
\* it was built with, vertex by vertex, and each of its positions is the
\* original one taken through the matrices of the transform_this_triangle
\* calls, in order, and through nothing else.  A transform_triangle call
\* leaves its triangle as it was and returns one with the same attributes,
\* vertex by vertex, at the positions transform_this_triangle gives for the
\* same input and matrix.
C10_TransformsMovePositionsOnly ==
    /\ \A k \in 1..3 :
        /\ Vertices(triangle3)[k].attributes = Vertices(original)[k].attributes
        /\ Vertices(triangle3)[k].vertex = ApplyAll(Vertices(original)[k].vertex, frames, 1)
    /\ returned # <<>> =>
        LET r == returned[1]
        IN  /\ r.self = r.input
            /\ \A k \in 1..3 :
                /\ Vertices(r.output)[k].attributes = Vertices(r.input)[k].attributes
                /\ Vertices(r.output)[k].vertex =
                      Vertices(transform_this_triangle(r.input, r.matrix))[k].vertex

\* After two passes of main's loop, triangle3 is not where it started and the
\* rasterised copy is not where triangle3 is.
C10_Witness ==
    /\ Len(frames) = 2
    /\ returned # <<>>
    /\ calls # <<>>
    /\ returned[1].input = triangle3
    /\ returned[1].matrix = translation_matrix
    /\ calls[1].triangle = returned[1].output
    /\ triangle3 # original
    /\ returned[1].output.v0.vertex # triangle3.v0.vertex

\* The model's usize is the non-negative range up to UsizeMax.
InsideSink(self, px_x, px_y) ==
    /\ 0 <= px_x /\ px_x < self.width_px
    /\ 0 <= px_y /\ px_y < self.height_px

\* C11: write_buf and read_buf on the sink return Ok exactly when
\* 0 <= x < width and 0 <= y < height; for any other coordinate they return
\* PixelOutsideBuf and the contents of the sink are as before the call.
C11_SinkCallsSucceedExactlyInside ==
    operation.op \in {"write_buf", "read_buf"} =>
        LET inside == InsideSink(operation.before, operation.px_x, operation.px_y)
        IN  /\ operation.result.ok <=> inside
            /\ ~inside => /\ operation.result = [ok |-> FALSE, err |-> "PixelOutsideBuf"]
                          /\ frame_buffer = operation.before
            /\ operation.op = "read_buf" => frame_buffer = operation.before

\* A write of a non-blank colour one column past the last, in a row of the
\* sink that already holds a written pixel.
C11_Witness ==
    /\ operation.op = "write_buf"
    /\ operation.px_x = operation.before.width_px
    /\ operation.px_y < operation.before.height_px
    /\ operation.colour # BLANK
    /\ \E x \in 0..(operation.before.width_px - 1) :
          read_buf(operation.before, x, operation.px_y).colour # BLANK

\* C17: after any sequence of write_buf and clear_buf calls, read_buf of a
\* pixel of the sink returns the colour, all four channels, of the latest
\* successful write_buf to that pixel, or BLANK if clear_buf came later or
\* nothing was written; the index x + (height - y - 1) * width is distinct for
\* distinct pixels of the sink and below width * height.
C17_ReadReturnsLatestWrite ==
    LET w == frame_buffer.width_px
        h == frame_buffer.height_px
        index(px) == convert_coordinates(px[1], px[2], w, h).index
    IN  /\ \A px \in Pixels(frame_buffer) :
              read_buf(frame_buffer, px[1], px[2]) = [ok |-> TRUE, colour |-> latest[px]]
        /\ \A px \in Pixels(frame_buffer) :
              /\ index(px) >= 0
              /\ index(px) < w * h
              /\ \A other \in Pixels(frame_buffer) : index(px) = index(other) => px = other

\* A successful write over a pixel that held another colour, while a second
\* pixel holds a written colour and a third is blank.
C17_Witness ==
    /\ operation.op = "write_buf"
    /\ operation.result.ok
    /\ read_buf(operation.before, operation.px_x, operation.px_y).colour # operation.colour
    /\ operation.colour = BLANK
    /\ \E px \in Pixels(frame_buffer) :
          /\ px # <<operation.px_x, operation.px_y>>
          /\ latest[px] # BLANK

\* The pixels the scan of a call covers: those whose edge values pass its test.
Covered(call) ==
    {<<call.attempts[j].x, call.attempts[j].y>> : j \in 1..Len(call.attempts)}

\* C12: a failed write neither aborts nor alters the scan.  The call scans
\* every pixel of the triangle's bounding box; each covered pixel inside the
\* sink is written and holds its colour afterwards; each write attempted outside
\* the sink fails, and every pixel that was not covered is as it was (blank).
C12_FailedWriteLeavesScanIntact ==
    \A i \in 1..Len(calls) :
        LET call == calls[i]
            box == get_bounding_box(call.triangle)
            columns == FloorInt(box.x.min)..(CeilInt(box.x.max) - 1)
            rows == FloorInt(box.y.min)..(CeilInt(box.y.max) - 1)
        IN  /\ Len(call.scanned) = Cardinality(columns) * Cardinality(rows)
            /\ {<<call.scanned[j].x, call.scanned[j].y>> : j \in 1..Len(call.scanned)}
                    = columns \X rows
            /\ Len(call.results) = Len(call.attempts)
            /\ \A j \in 1..Len(call.attempts) :
                  LET a == call.attempts[j]
                  IN  /\ call.results[j] <=> InsideSink(frame_buffer, a.x, a.y)
                      /\ call.results[j] =>
                            read_buf(frame_buffer, a.x, a.y) = [ok |-> TRUE, colour |-> a.colour]
            /\ \A px \in SinkPixels \ Covered(call) :
                  read_buf(frame_buffer, px[1], px[2]) = [ok |-> TRUE, colour |-> BLANK]

\* A call whose write at a negative coordinate failed and which went on to
\* write a pixel of the sink.
C12_Witness ==
    \E i \in 1..Len(calls) :
        \E j, k \in 1..Len(calls[i].attempts) :
            /\ j < k
            /\ ~calls[i].results[j]
            /\ (calls[i].attempts[j].x < 0 \/ calls[i].attempts[j].y < 0)
            /\ calls[i].results[k]

\* C13: every write a scan attempts is to a pixel of the sink, 0 <= x < width_px
\* and 0 <= y < height_px, so no write_buf call of a scan returns PixelOutsideBuf.
C13_ScanClampedToSink ==
    \A i \in 1..Len(calls) :
        \A j \in 1..Len(calls[i].attempts) :
            /\ InsideSink(frame_buffer, calls[i].attempts[j].x, calls[i].attempts[j].y)
            /\ calls[i].results[j]

\* The three edge values of a triangle at the centre of pixel px, each with
\* its edge's bias, computed by edge_fn directly.
EdgeValuesAt(t, w, px) ==
    LET p == PixelCentre(px)
    IN  [w0 |-> FAdd(edge_fn(t.v0.vertex, t.v1.vertex, p, w), Bias(t.v0.vertex, t.v1.vertex, w)),
         w1 |-> FAdd(edge_fn(t.v1.vertex, t.v2.vertex, p, w), Bias(t.v1.vertex, t.v2.vertex, w)),
         w2 |-> FAdd(edge_fn(t.v2.vertex, t.v0.vertex, p, w), Bias(t.v2.vertex, t.v0.vertex, w))]

\* The stepped edge values a scan tested at one of its pixels.
Tested(s) == [w0 |-> s.w0, w1 |-> s.w1, w2 |-> s.w2]

Reversed(t) == Triangle(t.v2, t.v1, t.v0)

\* C14: under either winding order, the stepped edge values tested at every
\* scanned pixel (x, y) are those of edge_fn at (x + 0.5, y + 0.5) with the same
\* winding plus the edges' biases; and a triangle rasterised with winding CW
\* covers the pixels its vertex-reversed triangle covers with winding CCW.
C14_SteppedEdgeValueIsEdgeFn ==
    \A i \in 1..Len(calls) :
        LET call == calls[i]
        IN  /\ \A j \in 1..Len(call.scanned) :
                  Tested(call.scanned[j])
                    = EdgeValuesAt(call.triangle, call.winding,
                                   <<call.scanned[j].x, call.scanned[j].y>>)
            /\ call.winding = "CW" =>
                  Covered(call) = Covered(Scan(Reversed(call.triangle), "CCW"))

\* The barycentric coordinates of the centre of pixel px in triangle t: the
\* edge functions of v1->v2, v2->v0 and v0->v1 over twice the signed area.
Barycentric(t, w, px) ==
    LET p == PixelCentre(px)
        area == DoubleArea(t, w)
    IN  [l0 |-> FDiv(edge_fn(t.v1.vertex, t.v2.vertex, p, w), area),
         l1 |-> FDiv(edge_fn(t.v2.vertex, t.v0.vertex, p, w), area),
         l2 |-> FDiv(edge_fn(t.v0.vertex, t.v1.vertex, p, w), area)]

UnitInterval(l) == FGe(l, I(0)) /\ FLe(l, I(1))

\* v is between the least and the greatest of a, b and c.
WithinRange(v, a, b, c) ==
    /\ FGe(v, a) \/ FGe(v, b) \/ FGe(v, c)
    /\ FLe(v, a) \/ FLe(v, b) \/ FLe(v, c)

\* C15: for every pixel a call wrote, the weights l0, l1, l2 used for its
\* colour are the barycentric coordinates of the pixel's own centre, each
\* weight is in [0, 1], and each channel of the written colour is between the
\* least and the greatest of the three vertex values of that channel.
C15_WeightsAreBarycentricOfPixelCentre ==
    \A i \in 1..Len(calls) :
        \A j \in 1..Len(calls[i].attempts) :
            calls[i].results[j] =>
                LET a == calls[i].attempts[j]
                    t == calls[i].triangle
                    c0 == t.v0.attributes.colour
                    c1 == t.v1.attributes.colour
                    c2 == t.v2.attributes.colour
                IN  /\ [l0 |-> a.l0, l1 |-> a.l1, l2 |-> a.l2]
                          = Barycentric(t, calls[i].winding, <<a.x, a.y>>)
                    /\ UnitInterval(a.l0) /\ UnitInterval(a.l1) /\ UnitInterval(a.l2)
                    /\ WithinRange(a.colour.red, c0.red, c1.red, c2.red)
                    /\ WithinRange(a.colour.green, c0.green, c1.green, c2.green)
                    /\ WithinRange(a.colour.blue, c0.blue, c1.blue, c2.blue)
                    /\ WithinRange(a.colour.alpha, c0.alpha, c1.alpha, c2.alpha)

\* C16: the sum w0 + w1 + w2 of the three edge values is the same at every
\* pixel a call scans, and the divisor double_triangle_area the call computes
\* from it is twice the signed area of the triangle,
\* (v1.x-v0.x)*(v2.y-v0.y) - (v1.y-v0.y)*(v2.x-v0.x) for winding CCW.
C16_DivisorIsTwiceSignedArea ==
    \A i \in 1..Len(calls) :
        LET call == calls[i]
        IN  /\ \A j \in 1..Len(call.scanned) :
                  FAdd(FAdd(call.scanned[j].w0, call.scanned[j].w1), call.scanned[j].w2)
                    = call.double_triangle_area
            /\ call.double_triangle_area = DoubleArea(call.triangle, call.winding)

\* C18: in both fit modes the canvas Camera::new computes has the aspect ratio
\* of the image, canvas_size.x / canvas_size.y = image_size.x / image_size.y,
\* so that one pixel spans the same length of canvas in x and in y.
C18_CanvasHasImageAspectRatio ==
    \A fit \in FitResolutionGate :
        built[fit] # <<>> =>
            LET canvas_size == built[fit][1]
                image_size == camera_args.image_size
            IN  /\ FDiv(canvas_size.x, canvas_size.y)
                      = FDiv(I(image_size.x), I(image_size.y))
                /\ FDiv(canvas_size.x, I(image_size.x))
                      = FDiv(canvas_size.y, I(image_size.y))

\* Both cameras were built from one set of arguments whose film gate is
\* narrower than its resolution gate.
C18_Witness ==
    /\ built["Fill"] # <<>>
    /\ built["Overscan"] # <<>>
    /\ FLt(FDiv(camera_args.camera_aperture.x, camera_args.camera_aperture.y),
           FDiv(I(camera_args.image_size.x), I(camera_args.image_size.y)))

====
